---- MODULE Spec2Model ----
(***************************************************************************)
(* Attempt engine of the admission test: the test-operations edge function *)
(* (create_attempt, save_response, complete_attempt, get_attempt,          *)
(* get_responses, get_results) over the tables of the migration, plus the  *)
(* question list the test page loads.  Every request handler is a process  *)
(* whose steps are its awaited store operations, so that concurrent        *)
(* handlers interleave exactly where the code suspends.                    *)
(***************************************************************************)
EXTENDS Integers, Sequences, FiniteSets, TLC

(***************************************************************************)
(* Bounds of the model.                                                    *)
(***************************************************************************)
MaxReqs == 2            \* request handlers that can be in flight at once
MaxAttempts == 2        \* rows of test_attempts
MaxResponses == 2       \* rows of question_responses
MaxClock == 2           \* distinct instants new Date() can return
MaxIssued == 3          \* requests issued, in all
MaxVerify == 7          \* verify-candidate requests issued, in all
MaxWindows == 1         \* rate-limit windows that can go by

Reqs == 1 .. MaxReqs

(***************************************************************************)
(* Values.  Ids are positive integers; 0 stands for a string that is not   *)
(* a uuid.  A timestamp is a positive clock value; NoTime is SQL NULL in a *)
(* timestamp column.  NULL is JSON null in a text column.                  *)
(***************************************************************************)
NULL == "null"
NoTime == 0
Letters == {"A", "B", "C", "D"}

\* const uuidRegex = /^[0-9a-f]{8}-...$/i ; uuidRegex.test(id)
uuidRegex(id) == id > 0

VARIABLES
  sections,            \* table public.sections
  questions,           \* table public.questions
  candidates,          \* table public.candidates
  test_attempts,       \* table public.test_attempts
  question_responses,  \* table public.question_responses
  clock,               \* the last instant new Date() returned
  pc,                  \* per handler: the await it is suspended at
  body,                \* per handler: the request body
  loc,                 \* per handler: the consts of the handler
  reply,               \* the Response on the wire, if any
  left,                \* number of requests still to be issued
  createOk,            \* candidates for which create_attempt returned 200
  completeOk,          \* attempts for which complete_attempt returned 200
  rateLimits,          \* verify-candidate: the Map rateLimits
  nowMs,               \* verify-candidate: the last value of Date.now()
  admitted,            \* per identifier: when checkRateLimit returned true
  page                 \* the Test page of one browser tab: its React state

dbVars == <<sections, questions, candidates, test_attempts, question_responses>>
reqVars == <<pc, body, loc, reply>>
histVars == <<left, createOk, completeOk>>
verifyVars == <<rateLimits, nowMs, admitted>>
vars == <<sections, questions, candidates, test_attempts, question_responses,
          clock, pc, body, loc, reply, left, createOk, completeOk,
          rateLimits, nowMs, admitted, page>>

(***************************************************************************)
(* The verify-candidate function is a second function instance with its    *)
(* own module state (the Map rateLimits); no handler of test-operations    *)
(* reads or writes it.                                                     *)
(***************************************************************************)
\* client identifiers: `verify:${clientIP}`
Identifiers == {"verify:ip1", "verify:ip2"}

\* rateLimits.get(identifier) === undefined
NoLimit == [count |-> 0]

\* no Test page is open
NoPage == [mounted |-> FALSE]

\* the instance after a cold start: an empty Map
ColdStart ==
  /\ rateLimits = [id \in Identifiers |-> NoLimit]
  /\ nowMs = 0
  /\ admitted = [id \in Identifiers |-> <<>>]

(***************************************************************************)
(* Store helpers.                                                          *)
(***************************************************************************)
\* .eq('id', id): rows with that primary key
ById(table, id) == LET T(row) == row.id = id IN SelectSeq(table, T)

\* .single(): exactly one row, else { data: null, error }
SingleOk(rows) == Len(rows) = 1

\* DEFAULT gen_random_uuid(): an id no row of the table has
RECURSIVE MaxId(_)
MaxId(table) ==
  IF table = <<>> THEN 0
  ELSE LET rest == MaxId(Tail(table))
       IN IF Head(table).id > rest THEN Head(table).id ELSE rest
NextId(table) == MaxId(table) + 1

NoBody == [action |-> "none"]
NoLoc == [none |-> 0]
NoReply == [status |-> 0]

\* return new Response(JSON.stringify(data), { status }): the handler ends
Respond(r, req, status, data) ==
  /\ reply' = [req |-> req, status |-> status, data |-> data]
  /\ pc' = [pc EXCEPT ![r] = "idle"]
  /\ body' = [body EXCEPT ![r] = NoBody]
  /\ loc' = [loc EXCEPT ![r] = NoLoc]
  /\ UNCHANGED <<verifyVars, page>>

\* A reply is on the wire for one state: it is delivered before the next
\* step of any handler.
Deliver ==
  /\ reply # NoReply
  /\ reply' = NoReply
  /\ UNCHANGED <<dbVars, clock, pc, body, loc, histVars, verifyVars, page>>

\* handler r is suspended at the await named label
At(r, label) ==
  /\ reply = NoReply
  /\ pc[r] = label

\* a handler is free to take a request: handlers are interchangeable, the
\* request goes to the first free one
Free(r) ==
  /\ At(r, "idle")
  /\ \A q \in Reqs : q < r => pc[q] # "idle"
  /\ left > 0
  /\ left' = left - 1

\* the handler suspends at its next await
Goto(r, label, req, locals) ==
  /\ reply' = NoReply
  /\ pc' = [pc EXCEPT ![r] = label]
  /\ body' = [body EXCEPT ![r] = req]
  /\ loc' = [loc EXCEPT ![r] = locals]
  /\ UNCHANGED <<verifyVars, page>>

Err(msg) == [error |-> msg]

(***************************************************************************)
(* Initial state: rows the migration seeds (two of the sections, the first  *)
(* question of Mathematics and of Science, one candidate), no attempt.     *)
(***************************************************************************)
Init ==
  /\ sections = << [id |-> 1, name |-> "Mathematics", display_order |-> 1],
                   [id |-> 2, name |-> "Science", display_order |-> 2] >>
  /\ questions = << [id |-> 1, section_id |-> 1, correct_answer |-> "B", time_limit |-> 30],
                    [id |-> 2, section_id |-> 2, correct_answer |-> "A", time_limit |-> 20] >>
  /\ candidates = << [id |-> 1, test_status |-> "NOT_ATTEMPTED"] >>
  /\ test_attempts = <<>>
  /\ question_responses = <<>>
  /\ clock = 1
  /\ pc = [r \in Reqs |-> "idle"]
  /\ body = [r \in Reqs |-> NoBody]
  /\ loc = [r \in Reqs |-> NoLoc]
  /\ reply = NoReply
  /\ left = MaxIssued
  /\ createOk = {}
  /\ completeOk = {}
  /\ ColdStart
  /\ page = NoPage

(***************************************************************************)
(* Time.  new Date() returns the current instant, which is never earlier   *)
(* than the last one read.                                                 *)
(***************************************************************************)
Instants == clock .. MaxClock

(***************************************************************************)
(* create_attempt                                                          *)
(***************************************************************************)
\* Bodies a client can send: candidateId -1 is a missing/empty id, 0 a
\* string that is no uuid, 1 the roster candidate, 2 a uuid of no candidate.
CreateAttemptBody(candidateId, totalQuestions) ==
  [action |-> "create_attempt", candidateId |-> candidateId,
   totalQuestions |-> totalQuestions]

CreateAttemptInputs ==
  { CreateAttemptBody(c, t) : c \in {1, 2}, t \in {0, 2} }
    \cup { CreateAttemptBody(-1, 2), CreateAttemptBody(0, 2), CreateAttemptBody(1, -1) }

\* line 110: candidate.test_status === 'ATTEMPTED'
AlreadyAttempted(candidate) == candidate.test_status = "ATTEMPTED"

\* lines 70-115: validate the body, read the candidate, reject unknown and
\* ATTEMPTED.  (Nothing another handler can see happens between the arrival
\* of a request and its first store read, so they are one step.)
CreateAttemptSelect(r, req) ==
  /\ Free(r)
  /\ LET rows == ById(candidates, req.candidateId) IN
       IF req.candidateId = -1
         THEN Respond(r, req, 400, Err("Valid candidateId is required"))
       ELSE IF ~uuidRegex(req.candidateId)
         THEN Respond(r, req, 400, Err("Invalid candidateId format"))
       ELSE IF req.totalQuestions < 0
         THEN Respond(r, req, 400, Err("Valid totalQuestions is required"))
       ELSE IF ~SingleOk(rows)
         THEN Respond(r, req, 404, Err("Candidate not found"))
       ELSE IF AlreadyAttempted(rows[1])
         THEN Respond(r, req, 400, Err("Candidate has already attempted the test"))
       ELSE Goto(r, "ca_insert", req, [after |-> req.candidateId \in createOk])
  /\ UNCHANGED <<dbVars, clock, createOk, completeOk>>

\* the row lines 118-128 insert; id is a column default (started_at, the
\* other default, is read by no operation and is left out)
NewAttempt(candidateId, totalQuestions) ==
  [id |-> NextId(test_attempts),
   candidate_id |-> candidateId,
   completed_at |-> NoTime,
   total_questions |-> totalQuestions,
   correct_answers |-> 0,
   incorrect_answers |-> 0,
   total_score |-> 0]

\* candidate_id UUID NOT NULL REFERENCES public.candidates(id)
CandidateExists(candidateId) == ById(candidates, candidateId) # <<>>

\* lines 117-136: insert the attempt row (the insert succeeds)
CreateAttemptInsert(r) ==
  /\ At(r, "ca_insert")
  /\ Len(test_attempts) < MaxAttempts
  /\ CandidateExists(body[r].candidateId)
  /\ LET attempt == NewAttempt(body[r].candidateId, body[r].totalQuestions) IN
       /\ test_attempts' = Append(test_attempts, attempt)
       /\ Goto(r, "ca_update", body[r], [after |-> loc[r].after, attempt |-> attempt])
  /\ UNCHANGED <<sections, questions, candidates, question_responses,
                 clock, histVars>>

\* an update that flips the status instead of setting it
SetAttemptedToggle(table, candidateId) ==
  [i \in DOMAIN table |->
     IF table[i].id = candidateId
       THEN [table[i] EXCEPT !.test_status =
               IF @ = "ATTEMPTED" THEN "NOT_ATTEMPTED" ELSE "ATTEMPTED"]
       ELSE table[i]]

\* .update({ test_status: 'ATTEMPTED' }).eq('id', candidateId)
SetAttempted(table, candidateId) ==
  [i \in DOMAIN table |->
     IF table[i].id = candidateId
       THEN [table[i] EXCEPT !.test_status = "ATTEMPTED"]
       ELSE table[i]]

\* lines 138-151: mark the candidate ATTEMPTED and return the attempt
CreateAttemptUpdate(r) ==
  /\ At(r, "ca_update")
  /\ candidates' = SetAttempted(candidates, body[r].candidateId)
  /\ Respond(r, body[r], 200, loc[r].attempt)
  /\ createOk' = createOk \cup {body[r].candidateId}
  /\ UNCHANGED <<sections, questions, test_attempts, question_responses,
                 clock, left, completeOk>>

\* lines 130-136: the insert returns attemptError
CreateAttemptInsertFails(r) ==
  /\ At(r, "ca_insert")
  /\ Respond(r, body[r], 500, Err("Failed to create test attempt"))
  /\ UNCHANGED <<dbVars, clock, histVars>>

\* lines 139-151: the update returns statusError, which is only logged
CreateAttemptUpdateFails(r) ==
  /\ At(r, "ca_update")
  /\ Respond(r, body[r], 200, loc[r].attempt)
  /\ createOk' = createOk \cup {body[r].candidateId}
  /\ UNCHANGED <<dbVars, clock, left, completeOk>>

(***************************************************************************)
(* save_response                                                           *)
(***************************************************************************)
\* Bodies a client can send: attemptId / questionId 0 is no uuid, the other
\* ids name rows that may or may not exist (question 3 never does);
\* selectedAnswer "E" is a letter outside A-D.
SaveResponseBody(attemptId, questionId, selectedAnswer, timeTaken, isCorrect) ==
  [action |-> "save_response", attemptId |-> attemptId,
   questionId |-> questionId, selectedAnswer |-> selectedAnswer,
   isCorrect |-> isCorrect, timeTaken |-> timeTaken]

\* every (attempt, question, answer) with a client that claims isCorrect,
\* one truthful-looking body whose flag understates, and one body per
\* rejection
SaveResponseInputs ==
  { SaveResponseBody(a, q, s, 7, TRUE) :
      a \in 1 .. MaxAttempts, q \in {1, 2}, s \in {NULL, "A"} }
    \cup { SaveResponseBody(1, 1, "A", 7, FALSE),
           SaveResponseBody(1, 3, "A", 7, TRUE), SaveResponseBody(0, 1, "A", 7, TRUE),
           SaveResponseBody(1, 0, "A", 7, TRUE), SaveResponseBody(1, 1, "A", -1, TRUE),
           SaveResponseBody(1, 1, "E", 7, TRUE) }

\* a handler that never sees an attempt as completed
CompletedAtSetNever(attempt) == FALSE

\* lines 201, 276, 415: attempt.completed_at as a condition
CompletedAtSet(attempt) == attempt.completed_at # NoTime

\* lines 154-206: validate the body (isCorrect is the extra field
\* useSaveQuestionResponse sends, useDatabase.ts 364-371), read the attempt,
\* reject unknown and completed
SaveResponseSelectAttempt(r, req) ==
  /\ Free(r)
  /\ LET rows == ById(test_attempts, req.attemptId) IN
       IF ~uuidRegex(req.attemptId)
         THEN Respond(r, req, 400, Err("Valid attemptId is required"))
       ELSE IF ~uuidRegex(req.questionId)
         THEN Respond(r, req, 400, Err("Valid questionId is required"))
       ELSE IF req.timeTaken < 0
         THEN Respond(r, req, 400, Err("Valid timeTaken is required"))
       ELSE IF req.selectedAnswer # NULL /\ req.selectedAnswer \notin Letters
         THEN Respond(r, req, 400, Err("selectedAnswer must be A, B, C, D, or null"))
       ELSE IF ~SingleOk(rows)
         THEN Respond(r, req, 404, Err("Test attempt not found"))
       ELSE IF CompletedAtSet(rows[1])
         THEN Respond(r, req, 400, Err("Test attempt already completed"))
       ELSE Goto(r, "sr_question", req, NoLoc)
  /\ UNCHANGED <<dbVars, clock, createOk, completeOk>>

\* a handler that stores the flag the request body carries
IsCorrectFromBody(req, question) == req.isCorrect

\* line 223: selectedAnswer !== null && selectedAnswer === question.correct_answer
IsCorrect(req, question) ==
  req.selectedAnswer # NULL /\ req.selectedAnswer = question.correct_answer

\* the row lines 226-236 insert; id is a column default
NewResponse(req, isCorrect) ==
  [id |-> NextId(question_responses),
   attempt_id |-> req.attemptId,
   question_id |-> req.questionId,
   selected_answer |-> req.selectedAnswer,
   is_correct |-> isCorrect,
   time_taken |-> req.timeTaken]

\* a handler that stores the response before it looks the question up
SaveResponseSelectQuestionInserting(r) ==
  /\ At(r, "sr_question")
  /\ LET rows == ById(questions, body[r].questionId) IN
       IF ~SingleOk(rows)
         THEN /\ question_responses' = Append(question_responses, NewResponse(body[r], FALSE))
              /\ Respond(r, body[r], 404, Err("Question not found"))
         ELSE /\ question_responses' = question_responses
              /\ Goto(r, "sr_insert", body[r], [isCorrect |-> IsCorrect(body[r], rows[1])])
  /\ UNCHANGED <<sections, questions, candidates, test_attempts, clock, histVars>>

\* lines 208-223: read the question's key, reject unknown, derive isCorrect
SaveResponseSelectQuestion(r) ==
  /\ At(r, "sr_question")
  /\ LET rows == ById(questions, body[r].questionId) IN
       IF ~SingleOk(rows)
         THEN Respond(r, body[r], 404, Err("Question not found"))
       ELSE Goto(r, "sr_insert", body[r], [isCorrect |-> IsCorrect(body[r], rows[1])])
  /\ UNCHANGED <<dbVars, clock, histVars>>

\* attempt_id UUID NOT NULL REFERENCES public.test_attempts(id),
\* question_id UUID NOT NULL REFERENCES public.questions(id)
ParentsExist(req) ==
  /\ ById(test_attempts, req.attemptId) # <<>>
  /\ ById(questions, req.questionId) # <<>>

\* lines 225-249: insert the response row and return it with is_correct
SaveResponseInsert(r) ==
  /\ At(r, "sr_insert")
  /\ Len(question_responses) < MaxResponses
  /\ ParentsExist(body[r])
  /\ LET response == NewResponse(body[r], loc[r].isCorrect) IN
       /\ question_responses' = Append(question_responses, response)
       /\ Respond(r, body[r], 200, [response EXCEPT !.is_correct = loc[r].isCorrect])
  /\ UNCHANGED <<sections, questions, candidates, test_attempts,
                 clock, histVars>>

(***************************************************************************)
(* Score arithmetic.  correctAnswers / totalQuestions * 100 is computed in *)
(* IEEE 754 binary64 (a JavaScript number).  A positive double is          *)
(* [m, e]: m its 53-bit significand as five limbs, the leading 1 and four  *)
(* limbs of 13 fraction bits, e the exponent of the leading bit.  Every    *)
(* operation rounds its exact result to nearest, ties to even.             *)
(***************************************************************************)
LimbBits == 13
FracLimbs == 4

RECURSIVE Pow2(_)
Pow2(n) == IF n = 0 THEN 1 ELSE 2 * Pow2(n - 1)

LimbBase == Pow2(LimbBits)

Zero == [zero |-> TRUE, m |-> <<>>, e |-> 0]

\* floor(log2(n / d)) for integers n, d >= 1
RECURSIVE ExpUp(_, _, _)
ExpUp(n, d, e) == IF 2 * d > n THEN e ELSE ExpUp(n, 2 * d, e + 1)
RECURSIVE ExpDown(_, _, _)
ExpDown(n, d, e) == IF n >= d THEN e ELSE ExpDown(2 * n, d, e - 1)
ExpOf(n, d) == IF n >= d THEN ExpUp(n, d, 0) ELSE ExpDown(n, d, 0)

\* the next k limbs of the expansion of rem / d (rem < d), and what is
\* left after them
RECURSIVE DivLimbs(_, _, _)
DivLimbs(rem, d, k) ==
  IF k = 0 THEN [limbs |-> <<>>, rem |-> rem]
  ELSE LET x == rem * LimbBase
           rest == DivLimbs(x % d, d, k - 1)
       IN [limbs |-> <<x \div d>> \o rest.limbs, rem |-> rest.rem]

\* limbs + 1, with the carry out of the first limb
RECURSIVE Incr(_)
Incr(limbs) ==
  IF limbs = <<>> THEN [limbs |-> <<>>, carry |-> 1]
  ELSE LET n == Len(limbs) IN
         IF limbs[n] < LimbBase - 1
           THEN [limbs |-> [limbs EXCEPT ![n] = @ + 1], carry |-> 0]
           ELSE LET up == Incr(SubSeq(limbs, 1, n - 1))
                IN [limbs |-> up.limbs \o <<0>>, carry |-> up.carry]

\* round to nearest, ties to even: frac the kept fraction limbs, half tells
\* whether the discarded part is at least half a unit in the last place,
\* more whether it exceeds that
RoundNearestEven(frac, e, half, more) ==
  IF half /\ (more \/ frac[Len(frac)] % 2 = 1)
    THEN LET up == Incr(frac) IN
           IF up.carry = 1
             THEN [zero |-> FALSE, m |-> <<1>> \o up.limbs, e |-> e + 1]
             ELSE [zero |-> FALSE, m |-> <<1>> \o up.limbs, e |-> e]
    ELSE [zero |-> FALSE, m |-> <<1>> \o frac, e |-> e]

\* the double n / d for integers n >= 0, d >= 1
FDiv(n, d) ==
  IF n = 0 THEN Zero
  ELSE LET e == ExpOf(n, d)
           nn == IF e < 0 THEN n * Pow2(-e) ELSE n
           dd == IF e > 0 THEN d * Pow2(e) ELSE d
           q == DivLimbs(nn - dd, dd, FracLimbs)
       IN RoundNearestEven(q.limbs, e, 2 * q.rem >= dd, 2 * q.rem > dd)

\* the limbs of limbs * k + carry, exactly; the first limb keeps what
\* exceeds a limb
RECURSIVE MulLimbs(_, _, _)
MulLimbs(limbs, k, carry) ==
  LET n == Len(limbs)
      v == limbs[n] * k + carry
  IN IF n = 1 THEN <<v>>
     ELSE MulLimbs(SubSeq(limbs, 1, n - 1), k, v \div LimbBase) \o <<v % LimbBase>>

\* the double x * k for a double x >= 0 and an integer k >= 1
FMul(x, k) ==
  IF x.zero THEN Zero
  ELSE LET p == MulLimbs(x.m, k, 0)
           s == ExpUp(p[1], 1, 0)         \* bits the product has beyond 53
           cut == Pow2(s)
           frac == [i \in 1 .. FracLimbs |->
                      (p[i] % cut) * (LimbBase \div cut) + (p[i + 1] \div cut)]
           lost == p[FracLimbs + 1] % cut
       IN RoundNearestEven(frac, x.e + s, s > 0 /\ 2 * lost >= cut, s > 0 /\ 2 * lost > cut)

\* Math.round(x) for a double 0 <= x < 2^26: the integer part, plus one
\* when the fraction is at least one half
MathRound(x) ==
  IF x.zero \/ x.e < -1 THEN 0
  ELSE IF x.e = -1 THEN 1
  ELSE LET top == (x.m[1] * LimbBase + x.m[2]) * LimbBase + x.m[3]   \* bits 52..26
           low == x.m[4] * LimbBase + x.m[5]                         \* bits 25..0
           k == 2 * LimbBits - x.e         \* fraction bits within top
           int == top \div Pow2(k)
           halfBit == IF k = 0 THEN low \div Pow2(2 * LimbBits - 1)
                      ELSE (top \div Pow2(k - 1)) % 2
       IN int + halfBit

\* line 300
TotalScore(correctAnswers, totalQuestions) ==
  IF totalQuestions > 0
    THEN MathRound(FMul(FDiv(correctAnswers, totalQuestions), 100))
    ELSE 0

(***************************************************************************)
(* complete_attempt                                                        *)
(***************************************************************************)
\* the body useCompleteTestAttempt sends (useDatabase.ts 326-334): the
\* counts are the client's own
CompleteAttemptBody(attemptId, correctAnswers, incorrectAnswers, totalQuestions) ==
  [action |-> "complete_attempt", attemptId |-> attemptId,
   correctAnswers |-> correctAnswers, incorrectAnswers |-> incorrectAnswers,
   totalQuestions |-> totalQuestions]

CompleteAttemptInputs ==
  { CompleteAttemptBody(a, 2, 0, 2) : a \in 0 .. MaxAttempts }
    \cup { CompleteAttemptBody(1, 0, 0, 0) }

\* lines 252-281: validate the body, read the attempt, reject unknown and
\* completed
CompleteAttemptSelect(r, req) ==
  /\ Free(r)
  /\ LET rows == ById(test_attempts, req.attemptId) IN
       IF ~uuidRegex(req.attemptId)
         THEN Respond(r, req, 400, Err("Valid attemptId is required"))
       ELSE IF ~SingleOk(rows)
         THEN Respond(r, req, 404, Err("Test attempt not found"))
       ELSE IF CompletedAtSet(rows[1])
         THEN Respond(r, req, 400, Err("Test attempt already completed"))
       ELSE Goto(r, "co_responses", req,
               [after |-> req.attemptId \in completeOk,
                candidate_id |-> rows[1].candidate_id,
                total_questions |-> rows[1].total_questions])
  /\ UNCHANGED <<dbVars, clock, createOk, completeOk>>

\* .from('question_responses').eq('attempt_id', attemptId)
ResponsesOf(table, attemptId) ==
  LET T(row) == row.attempt_id = attemptId IN SelectSeq(table, T)

\* responses.filter(r => r.is_correct).length
CorrectCount(responses) ==
  LET T(row) == row.is_correct IN Len(SelectSeq(responses, T))

\* responses.filter(r => !r.is_correct).length
IncorrectCount(responses) ==
  LET T(row) == ~row.is_correct IN Len(SelectSeq(responses, T))

\* a || b on numbers
OrElse(a, b) == IF a # 0 THEN a ELSE b

\* lines 297-300: what complete_attempt derives from the rows it read
Scores(req, attempt, responses) ==
  LET correctAnswers == CorrectCount(responses)
      incorrectAnswers == IncorrectCount(responses)
      totalQuestions == OrElse(attempt.total_questions, OrElse(Len(responses), 0))
  IN [correct_answers |-> correctAnswers,
      incorrect_answers |-> incorrectAnswers,
      total_score |-> TotalScore(correctAnswers, totalQuestions)]

\* lines 283-300: read the attempt's responses and derive counts and score
CompleteAttemptResponses(r) ==
  /\ At(r, "co_responses")
  /\ LET responses == ResponsesOf(question_responses, body[r].attemptId) IN
       Goto(r, "co_update", body[r],
            [after |-> loc[r].after, candidate_id |-> loc[r].candidate_id,
             scores |-> Scores(body[r], loc[r], responses)])
  /\ UNCHANGED <<dbVars, clock, histVars>>

\* .update({ completed_at, correct_answers, incorrect_answers, total_score })
\*   .eq('id', attemptId)
Completed(table, attemptId, now, scores) ==
  [i \in DOMAIN table |->
     IF table[i].id = attemptId
       THEN [table[i] EXCEPT !.completed_at = now,
                             !.correct_answers = scores.correct_answers,
                             !.incorrect_answers = scores.incorrect_answers,
                             !.total_score = scores.total_score]
       ELSE table[i]]

\* lines 302-321: write completed_at, the counts and the score
CompleteAttemptUpdate(r, now) ==
  /\ At(r, "co_update")
  /\ clock' = now
  /\ test_attempts' = Completed(test_attempts, body[r].attemptId, now, loc[r].scores)
  /\ Goto(r, "co_status", body[r],
          [after |-> loc[r].after, candidate_id |-> loc[r].candidate_id,
           updatedAttempt |-> ById(test_attempts', body[r].attemptId)[1]])
  /\ UNCHANGED <<sections, questions, candidates, question_responses, histVars>>

\* lines 323-333: set the candidate ATTEMPTED again and return the attempt
CompleteAttemptStatus(r) ==
  /\ At(r, "co_status")
  /\ candidates' = SetAttempted(candidates, loc[r].candidate_id)
  /\ Respond(r, body[r], 200, loc[r].updatedAttempt)
  /\ completeOk' = completeOk \cup {body[r].attemptId}
  /\ UNCHANGED <<sections, questions, test_attempts, question_responses,
                 clock, left, createOk>>

(***************************************************************************)
(* get_attempt, get_responses                                              *)
(***************************************************************************)
ReadBody(action, attemptId) == [action |-> action, attemptId |-> attemptId]

ReadInputs(action) == { ReadBody(action, a) : a \in 0 .. MaxAttempts }

\* lines 335-361
GetAttempt(r, req) ==
  /\ Free(r)
  /\ LET rows == ById(test_attempts, req.attemptId) IN
       IF ~uuidRegex(req.attemptId)
         THEN Respond(r, req, 400, Err("Valid attemptId is required"))
       ELSE IF ~SingleOk(rows)
         THEN Respond(r, req, 404, Err("Test attempt not found"))
       ELSE Respond(r, req, 200, rows[1])
  /\ UNCHANGED <<dbVars, clock, createOk, completeOk>>

\* lines 363-388
GetResponses(r, req) ==
  /\ Free(r)
  /\ IF ~uuidRegex(req.attemptId)
       THEN Respond(r, req, 400, Err("Valid attemptId is required"))
       ELSE Respond(r, req, 200, ResponsesOf(question_responses, req.attemptId))
  /\ UNCHANGED <<dbVars, clock, createOk, completeOk>>

(***************************************************************************)
(* get_results                                                             *)
(***************************************************************************)
\* a handler that takes every attempt for completed
NotYetCompletedNever(attempt) == FALSE

\* line 415: !attempt.completed_at
NotYetCompleted(attempt) == ~CompletedAtSet(attempt)

\* lines 390-420: validate the body, read the attempt, reject unknown and
\* not completed
GetResultsSelect(r, req) ==
  /\ Free(r)
  /\ LET rows == ById(test_attempts, req.attemptId) IN
       IF ~uuidRegex(req.attemptId)
         THEN Respond(r, req, 400, Err("Valid attemptId is required"))
       ELSE IF ~SingleOk(rows)
         THEN Respond(r, req, 404, Err("Test attempt not found"))
       ELSE IF NotYetCompleted(rows[1])
         THEN Respond(r, req, 400, Err("Test is not yet completed"))
       ELSE Goto(r, "gr_responses", req, [attempt |-> rows[1]])
  /\ UNCHANGED <<dbVars, clock, createOk, completeOk>>

\* lines 422-433: read the attempt's responses
GetResultsResponses(r) ==
  /\ At(r, "gr_responses")
  /\ Goto(r, "gr_questions", body[r],
          [attempt |-> loc[r].attempt,
           responses |-> ResponsesOf(question_responses, body[r].attemptId)])
  /\ UNCHANGED <<dbVars, clock, histVars>>

\* .select('*, sections(name)'): every question with its section's name
QuestionsWithSections ==
  [i \in DOMAIN questions |->
     LET sec == ById(sections, questions[i].section_id)
     IN [id |-> questions[i].id,
         section_id |-> questions[i].section_id,
         correct_answer |-> questions[i].correct_answer,
         time_limit |-> questions[i].time_limit,
         sections |-> [name |-> sec[1].name]]]

\* lines 448-463: one record per response; a field whose value is undefined
\* is not serialised (question texts and options are not modelled)
DetailedQuestion(response, qs) ==
  LET found == ById(qs, response.question_id)
      answer == [id |-> response.question_id,
                 selected_answer |-> response.selected_answer,
                 is_correct |-> response.is_correct,
                 time_taken |-> response.time_taken]
  IN IF found = <<>> THEN answer
     ELSE [id |-> answer.id,
           correct_answer |-> found[1].correct_answer,
           section_name |-> found[1].sections.name,
           selected_answer |-> answer.selected_answer,
           is_correct |-> answer.is_correct,
           time_taken |-> answer.time_taken]

\* lines 435-463: read the questions and build detailedQuestions
GetResultsQuestions(r) ==
  /\ At(r, "gr_questions")
  /\ LET qs == QuestionsWithSections IN
       Goto(r, "gr_sections", body[r],
            [attempt |-> loc[r].attempt,
             responses |-> loc[r].responses,
             questions |-> qs,
             detailedQuestions |->
               [i \in DOMAIN loc[r].responses |-> DetailedQuestion(loc[r].responses[i], qs)]])
  /\ UNCHANGED <<dbVars, clock, histVars>>

\* .order('display_order', { ascending: true }): the orders the store may
\* return the rows in (rows with equal keys come in any order)
OrderedByDisplayOrder(table) ==
  { p \in [DOMAIN table -> DOMAIN table] :
      /\ \A i, j \in DOMAIN table : i # j => p[i] # p[j]
      /\ \A i, j \in DOMAIN table :
           i < j => table[p[i]].display_order <= table[p[j]].display_order }

\* lines 479-490
SectionScore(section, qs, responses) ==
  LET InSection(q) == q.section_id = section.id
      sectionQuestions == SelectSeq(qs, InSection)
      Answers(resp) == \E k \in DOMAIN sectionQuestions :
                          sectionQuestions[k].id = resp.question_id
      sectionResponses == SelectSeq(responses, Answers)
  IN [sectionName |-> section.name,
      total |-> Len(sectionQuestions),
      correct |-> CorrectCount(sectionResponses)]

\* lines 465-498: read the sections in display order and return the results
GetResultsSections(r) ==
  /\ At(r, "gr_sections")
  /\ \E p \in OrderedByDisplayOrder(sections) :
       Respond(r, body[r], 200,
               [attempt |-> loc[r].attempt,
                detailedQuestions |-> loc[r].detailedQuestions,
                sectionScores |->
                  [i \in DOMAIN sections |->
                     SectionScore(sections[p[i]], loc[r].questions, loc[r].responses)]])
  /\ UNCHANGED <<dbVars, clock, histVars>>

(***************************************************************************)
(* The question list of the test page (useTestQuestions).  The page reads  *)
(* the tables directly, under the row-level policies of the migration.     *)
(***************************************************************************)
Callers == {"anon", "admin"}

\* migration lines 3-8: the only SELECT policy on questions is the admins'
CanReadQuestions(caller) == caller = "admin"

\* useDatabase.ts 473-482: for each section, in the order p the store
\* returned them, its questions in the order of the questions read, each
\* with the section's name
AllQuestions(p, visible) ==
  LET Of(i) == LET T(q) == q.section_id = sections[p[i]].id
                   qs == SelectSeq(visible, T)
               IN [k \in DOMAIN qs |->
                     [id |-> qs[k].id,
                      section_id |-> qs[k].section_id,
                      correct_answer |-> qs[k].correct_answer,
                      time_limit |-> qs[k].time_limit,
                      section_name |-> sections[p[i]].name]]
      Join[i \in 0 .. Len(sections)] == IF i = 0 THEN <<>> ELSE Join[i - 1] \o Of(i)
  IN Join[Len(sections)]

\* useDatabase.ts 459-487: sections by display_order, questions (every
\* column) by created_at, joined per section into one list
ListTestQuestions(caller) ==
  /\ reply = NoReply
  /\ left > 0
  /\ left' = left - 1
  /\ \E p \in OrderedByDisplayOrder(sections) :
       LET visible == IF CanReadQuestions(caller) THEN questions ELSE <<>>
       IN reply' = [req |-> [action |-> "list_test_questions", caller |-> caller],
                    status |-> 200, data |-> AllQuestions(p, visible)]
  /\ UNCHANGED <<dbVars, clock, pc, body, loc, createOk, completeOk, verifyVars, page>>

(***************************************************************************)
(* The specification: any number of clients issue requests; up to MaxReqs  *)
(* handlers run at once and interleave at their awaits.                    *)
(***************************************************************************)
CreateAttempt(r) ==
  \/ \E req \in CreateAttemptInputs : CreateAttemptSelect(r, req)
  \/ CreateAttemptInsert(r)
  \/ CreateAttemptUpdate(r)

SaveResponse(r) ==
  \/ \E req \in SaveResponseInputs : SaveResponseSelectAttempt(r, req)
  \/ SaveResponseSelectQuestion(r)
  \/ SaveResponseInsert(r)

CompleteAttempt(r) ==
  \/ \E req \in CompleteAttemptInputs : CompleteAttemptSelect(r, req)
  \/ CompleteAttemptResponses(r)
  \/ \E now \in Instants : CompleteAttemptUpdate(r, now)
  \/ CompleteAttemptStatus(r)

GetResults(r) ==
  \/ \E req \in ReadInputs("get_results") : GetResultsSelect(r, req)
  \/ GetResultsResponses(r)
  \/ GetResultsQuestions(r)
  \/ GetResultsSections(r)

Next ==
  \/ Deliver
  \/ \E r \in Reqs : CreateAttempt(r)
  \/ \E r \in Reqs : SaveResponse(r)
  \/ \E r \in Reqs : CompleteAttempt(r)
  \/ \E r \in Reqs, req \in ReadInputs("get_attempt") : GetAttempt(r, req)
  \/ \E r \in Reqs, req \in ReadInputs("get_responses") : GetResponses(r, req)
  \/ \E r \in Reqs : GetResults(r)
  \/ \E caller \in Callers : ListTestQuestions(caller)

Spec == Init /\ [][Next]_vars

(***************************************************************************)
(* The same system over a store whose writes in create_attempt may fail.   *)
(***************************************************************************)
NextFault ==
  \/ Next
  \/ \E r \in Reqs : CreateAttemptInsertFails(r)
  \/ \E r \in Reqs : CreateAttemptUpdateFails(r)

SpecFault == Init /\ [][NextFault]_vars

(***************************************************************************)
(* Scoring on its own: a page has answered every one of T questions once,  *)
(* C of them correctly, and completes its attempt.                         *)
(***************************************************************************)
MaxScoreQuestions == 40

InitScore ==
  \E T \in 1 .. MaxScoreQuestions : \E C \in 0 .. T :
    /\ sections = << [id |-> 1, name |-> "Mathematics", display_order |-> 1],
                     [id |-> 2, name |-> "Science", display_order |-> 2] >>
    /\ questions = [i \in 1 .. T |->
                      [id |-> i, section_id |-> 1 + (i % 2),
                       correct_answer |-> "A", time_limit |-> 30]]
    /\ candidates = << [id |-> 1, test_status |-> "ATTEMPTED"] >>
    /\ test_attempts = << [id |-> 1, candidate_id |-> 1, completed_at |-> NoTime,
                           total_questions |-> T, correct_answers |-> 0,
                           incorrect_answers |-> 0, total_score |-> 0] >>
    /\ question_responses =
         [i \in 1 .. T |->
            [id |-> i, attempt_id |-> 1, question_id |-> i,
             selected_answer |-> IF i <= C THEN "A" ELSE NULL,
             is_correct |-> i <= C, time_taken |-> 7]]
    /\ clock = 1
    /\ pc = [r \in Reqs |-> "idle"]
    /\ body = [r \in Reqs |-> NoBody]
    /\ loc = [r \in Reqs |-> NoLoc]
    /\ reply = NoReply
    /\ left = MaxIssued
    /\ createOk = {1}
    /\ completeOk = {}
    /\ ColdStart
    /\ page = NoPage

NextScore ==
  \/ Deliver
  \/ CompleteAttempt(1)

SpecScore == InitScore /\ [][NextScore]_vars

(***************************************************************************)
(* verify-candidate.  The strings of the verification form are sequences   *)
(* of characters, so that trimming, case folding, escaping and pattern     *)
(* matching are computed as the code and the store compute them.           *)
(***************************************************************************)
MaxRequests == 5        \* checkRateLimit(`verify:${clientIP}`, 5, 60000)
WindowMs == 60000

Whitespace == {" "}
Digits == {"0", "1", "2", "3", "4", "5", "6", "7", "8", "9"}
UpperCase == <<"A", "B", "L", "O", "X">>
LowerCase == <<"a", "b", "l", "o", "x">>

\* String.prototype.trim
RECURSIVE trimStart(_)
trimStart(str) ==
  IF str # <<>> /\ Head(str) \in Whitespace THEN trimStart(Tail(str)) ELSE str

RECURSIVE trimEnd(_)
trimEnd(str) ==
  IF str # <<>> /\ str[Len(str)] \in Whitespace
    THEN trimEnd(SubSeq(str, 1, Len(str) - 1))
    ELSE str

trim(str) == trimEnd(trimStart(str))

\* String.prototype.includes, for one character
includes(str, c) == \E i \in DOMAIN str : str[i] = c

\* case folding, as ILIKE applies it to both sides
toLowerCase(str) ==
  [i \in DOMAIN str |->
     IF \E k \in DOMAIN UpperCase : UpperCase[k] = str[i]
       THEN LowerCase[CHOOSE k \in DOMAIN UpperCase : UpperCase[k] = str[i]]
       ELSE str[i]]

\* str.replace(/[%_\\]/g, '\\$&')
RECURSIVE escapeLikePattern(_)
escapeLikePattern(str) ==
  IF str = <<>> THEN <<>>
  ELSE (IF Head(str) \in {"%", "_", "\\"} THEN <<"\\", Head(str)>> ELSE <<Head(str)>>)
         \o escapeLikePattern(Tail(str))

\* value LIKE pattern: % is any run of characters, _ any one character,
\* backslash takes the next character literally
RECURSIVE like(_, _)
like(value, pattern) ==
  IF pattern = <<>> THEN value = <<>>
  ELSE IF Head(pattern) = "\\"
    THEN /\ Len(pattern) >= 2
         /\ value # <<>>
         /\ Head(value) = pattern[2]
         /\ like(Tail(value), Tail(Tail(pattern)))
  ELSE IF Head(pattern) = "%"
    THEN \/ like(value, Tail(pattern))
         \/ value # <<>> /\ like(Tail(value), pattern)
  ELSE IF Head(pattern) = "_"
    THEN value # <<>> /\ like(Tail(value), Tail(pattern))
  ELSE /\ value # <<>>
       /\ Head(value) = Head(pattern)
       /\ like(Tail(value), Tail(pattern))

\* .ilike(column, pattern)
ilike(value, pattern) == like(toLowerCase(value), toLowerCase(pattern))

\* /^[0-9]{10}$/.test(str)
TenDigits(str) == Len(str) = 10 /\ \A i \in DOMAIN str : str[i] \in Digits

\* a rejecting call that restarts the window of the identifier
checkRateLimitRestarting(limits, identifier, maxRequests, windowMs, now) ==
  LET limit == limits[identifier] IN
    IF limit = NoLimit \/ now > limit.resetAt
      THEN [admit |-> TRUE,
            rateLimits |-> [limits EXCEPT ![identifier] =
                              [count |-> 1, resetAt |-> now + windowMs]]]
    ELSE IF limit.count >= maxRequests
      THEN [admit |-> FALSE,
            rateLimits |-> [limits EXCEPT ![identifier].resetAt = now + windowMs]]
    ELSE [admit |-> TRUE,
          rateLimits |-> [limits EXCEPT ![identifier].count = @ + 1]]

\* lines 12-27: the result and the Map after the call, now being Date.now()
checkRateLimit(limits, identifier, maxRequests, windowMs, now) ==
  LET limit == limits[identifier] IN
    IF limit = NoLimit \/ now > limit.resetAt
      THEN [admit |-> TRUE,
            rateLimits |-> [limits EXCEPT ![identifier] =
                              [count |-> 1, resetAt |-> now + windowMs]]]
    ELSE IF limit.count >= maxRequests
      THEN [admit |-> FALSE, rateLimits |-> limits]
    ELSE [admit |-> TRUE,
          rateLimits |-> [limits EXCEPT ![identifier].count = @ + 1]]

\* the request: the source address the limiter keys on and the JSON body
VerifyBody(identifier, fullName, email, phone) ==
  [action |-> "verify_candidate", identifier |-> identifier,
   fullName |-> fullName, email |-> email, phone |-> phone]

\* lines 56-85: the validation error of a body, or "ok" (an empty string is
\* falsy)
Validation(req) ==
  IF req.fullName = <<>> \/ Len(trim(req.fullName)) < 2
    THEN "Invalid full name provided"
  ELSE IF req.email = <<>> \/ ~includes(req.email, "@")
    THEN "Invalid email provided"
  ELSE IF req.phone = <<>> \/ ~TenDigits(trim(req.phone))
    THEN "Invalid phone number provided"
  ELSE IF \/ includes(req.fullName, "%") \/ includes(req.fullName, "_")
          \/ includes(req.email, "%") \/ includes(req.email, "_")
    THEN "Invalid characters in name or email"
  ELSE "ok"

\* lines 95-100: the rows the query selects
FindCandidate(req) ==
  LET T(c) == /\ ilike(c.full_name, escapeLikePattern(trim(req.fullName)))
              /\ ilike(c.email, escapeLikePattern(trim(req.email)))
              /\ c.phone = trim(req.phone)
  IN SelectSeq(candidates, T)

\* a reply that tells whether the phone number is on the roster
NotFoundReplyNamingField(req) ==
  [found |-> FALSE,
   message |-> IF \E i \in DOMAIN candidates : candidates[i].phone = trim(req.phone)
                 THEN "Name or email does not match."
                 ELSE "You are not authorized to take the NIOS Admission Test. Please contact the administration."]

\* lines 111-120
NotFoundReply(req) ==
  [found |-> FALSE,
   message |-> "You are not authorized to take the NIOS Admission Test. Please contact the administration."]

\* lines 122-133
FoundReply(candidate) ==
  [found |-> TRUE, candidateId |-> candidate.id,
   candidateName |-> candidate.full_name, testStatus |-> candidate.test_status]

\* instants Date.now() can return: the start of a window and the
\* millisecond after it
VerifyInstants ==
  { k * WindowMs + e : k \in 0 .. MaxWindows, e \in {0, 1} }

\* lines 34-142: the handler.  The limiter runs before the first await and
\* nothing else touches the Map, so the handler is one step.
VerifyCandidate(req, now) ==
  /\ reply = NoReply
  /\ left > 0
  /\ left' = left - 1
  /\ now >= nowMs
  /\ nowMs' = now
  /\ LET checked == checkRateLimit(rateLimits, req.identifier, MaxRequests, WindowMs, now)
         rows == FindCandidate(req)
     IN /\ rateLimits' = checked.rateLimits
        /\ IF ~checked.admit
             THEN /\ admitted' = admitted
                  /\ reply' = [req |-> req, status |-> 429,
                               data |-> Err("Too many verification attempts. Please try again in a minute.")]
             ELSE /\ admitted' = [admitted EXCEPT ![req.identifier] = Append(@, now)]
                  /\ reply' =
                       IF Validation(req) # "ok"
                         THEN [req |-> req, status |-> 400, data |-> Err(Validation(req))]
                       ELSE IF Len(rows) > 1
                         THEN [req |-> req, status |-> 500,
                               data |-> Err("An error occurred while verifying")]
                       ELSE IF rows = <<>>
                         THEN [req |-> req, status |-> 200, data |-> NotFoundReply(req)]
                       ELSE [req |-> req, status |-> 200, data |-> FoundReply(rows[1])]
  /\ UNCHANGED <<dbVars, clock, pc, body, loc, createOk, completeOk, page>>

\* the roster the administrator has entered
PhoneA == <<"9", "8", "7", "6", "5", "4", "3", "2", "1", "0">>
PhoneB == <<"9", "8", "7", "6", "5", "4", "3", "2", "1", "1">>
PhoneC == <<"9", "8", "7", "6", "5", "4", "3", "2", "1", "2">>

InitVerify ==
  /\ sections = <<>>
  /\ questions = <<>>
  /\ candidates =
       << [id |-> 1, full_name |-> <<"A", "l">>, email |-> <<"a", "@", "x">>,
           phone |-> PhoneA, test_status |-> "NOT_ATTEMPTED"],
          [id |-> 2, full_name |-> <<"B", "o">>, email |-> <<"b", "_", "@", "x">>,
           phone |-> PhoneB, test_status |-> "NOT_ATTEMPTED"] >>
  /\ test_attempts = <<>>
  /\ question_responses = <<>>
  /\ clock = 1
  /\ pc = [r \in Reqs |-> "idle"]
  /\ body = [r \in Reqs |-> NoBody]
  /\ loc = [r \in Reqs |-> NoLoc]
  /\ reply = NoReply
  /\ left = MaxVerify
  /\ createOk = {}
  /\ completeOk = {}
  /\ ColdStart
  /\ page = NoPage

\* the limiter: two sources, bodies that are found, not found and invalid
RateInputs ==
  { VerifyBody(id, <<"A", "l">>, <<"a", "@", "x">>, phone) :
      id \in Identifiers, phone \in {PhoneA, PhoneC, <<"1">>} }

NextRate ==
  \/ Deliver
  \/ \E req \in RateInputs, now \in VerifyInstants : VerifyCandidate(req, now)

SpecRate == InitVerify /\ [][NextRate]_vars

\* the match: one source, every combination of the names, emails and
\* phones below
VerifyNames ==
  { <<"A", "l">>, <<" ", "a", "L", " ">>, <<"A", "x">>, <<"A">>, <<"A", "%">>,
    <<"_", "_">>, <<"A", "\\">>, <<"B", "o">> }
VerifyEmails ==
  { <<"a", "@", "x">>, <<"A", "@", "X">>, <<"o", "@", "x">>, <<"a", "x">>,
    <<"%", "@", "x">>, <<"b", "_", "@", "x">>, <<"b", "\\", "@", "x">> }
VerifyPhones ==
  { PhoneA, PhoneB, PhoneC, <<" ">> \o PhoneA, <<"1", "2", "3">> }

VerifyInputs ==
  { VerifyBody("verify:ip1", n, e, p) :
      n \in VerifyNames, e \in VerifyEmails, p \in VerifyPhones }

MaxMatch == 2           \* requests of the match specification, in all

\* the same roster, for a source that sends a few requests
InitMatch ==
  /\ sections = <<>>
  /\ questions = <<>>
  /\ candidates =
       << [id |-> 1, full_name |-> <<"A", "l">>, email |-> <<"a", "@", "x">>,
           phone |-> PhoneA, test_status |-> "NOT_ATTEMPTED"],
          [id |-> 2, full_name |-> <<"B", "o">>, email |-> <<"b", "_", "@", "x">>,
           phone |-> PhoneB, test_status |-> "NOT_ATTEMPTED"] >>
  /\ test_attempts = <<>>
  /\ question_responses = <<>>
  /\ clock = 1
  /\ pc = [r \in Reqs |-> "idle"]
  /\ body = [r \in Reqs |-> NoBody]
  /\ loc = [r \in Reqs |-> NoLoc]
  /\ reply = NoReply
  /\ left = MaxMatch
  /\ createOk = {}
  /\ completeOk = {}
  /\ ColdStart
  /\ page = NoPage

NextMatch ==
  \/ Deliver
  \/ \E req \in VerifyInputs, now \in VerifyInstants : VerifyCandidate(req, now)

SpecMatch == InitMatch /\ [][NextMatch]_vars

(***************************************************************************)
(* Results on their own: candidate 1 has created attempt 1 and the reply   *)
(* was delivered; the page records responses, completes and reviews.       *)
(***************************************************************************)
InitResults ==
  /\ sections = << [id |-> 1, name |-> "Mathematics", display_order |-> 1],
                   [id |-> 2, name |-> "Science", display_order |-> 2] >>
  /\ questions = << [id |-> 1, section_id |-> 1, correct_answer |-> "B", time_limit |-> 30],
                    [id |-> 2, section_id |-> 2, correct_answer |-> "A", time_limit |-> 20] >>
  /\ candidates = << [id |-> 1, test_status |-> "ATTEMPTED"] >>
  /\ test_attempts = << [id |-> 1, candidate_id |-> 1, completed_at |-> NoTime,
                         total_questions |-> 2, correct_answers |-> 0,
                         incorrect_answers |-> 0, total_score |-> 0] >>
  /\ question_responses = <<>>
  /\ clock = 1
  /\ pc = [r \in Reqs |-> "idle"]
  /\ body = [r \in Reqs |-> NoBody]
  /\ loc = [r \in Reqs |-> NoLoc]
  /\ reply = NoReply
  /\ left = MaxIssued
  /\ createOk = {1}
  /\ completeOk = {}
  /\ ColdStart
  /\ page = NoPage

NextResults ==
  \/ Deliver
  \/ \E r \in Reqs : SaveResponse(r)
  \/ \E r \in Reqs : CompleteAttempt(r)
  \/ \E r \in Reqs : GetResults(r)

SpecResults == InitResults /\ [][NextResults]_vars

(***************************************************************************)
(* Attempt creation on its own: one client sends MaxFlood create_attempt   *)
(* requests within one window.                                             *)
(***************************************************************************)
MaxFlood == 6

InitFlood ==
  /\ sections = << [id |-> 1, name |-> "Mathematics", display_order |-> 1],
                   [id |-> 2, name |-> "Science", display_order |-> 2] >>
  /\ questions = << [id |-> 1, section_id |-> 1, correct_answer |-> "B", time_limit |-> 30],
                    [id |-> 2, section_id |-> 2, correct_answer |-> "A", time_limit |-> 20] >>
  /\ candidates = << [id |-> 1, test_status |-> "NOT_ATTEMPTED"] >>
  /\ test_attempts = <<>>
  /\ question_responses = <<>>
  /\ clock = 1
  /\ pc = [r \in Reqs |-> "idle"]
  /\ body = [r \in Reqs |-> NoBody]
  /\ loc = [r \in Reqs |-> NoLoc]
  /\ reply = NoReply
  /\ left = MaxFlood
  /\ createOk = {}
  /\ completeOk = {}
  /\ ColdStart
  /\ page = NoPage

NextFlood ==
  \/ Deliver
  \/ \E r \in Reqs : CreateAttempt(r)

SpecFlood == InitFlood /\ [][NextFlood]_vars

(***************************************************************************)
(* Administration.  The admin pages delete sections, questions and         *)
(* candidates with one DELETE each (useDatabase.ts); the foreign keys of   *)
(* the migration are ON DELETE CASCADE, and an insert whose parent row is  *)
(* gone is refused by the store.                                           *)
(***************************************************************************)
\* .delete().eq('id', id)
Without(table, id) == LET T(row) == row.id # id IN SelectSeq(table, T)

\* a foreign key that lets the rows of a deleted parent stay
OnDeleteNoAction(child, column, parent) == child

\* REFERENCES parent(id) ON DELETE CASCADE: the child rows whose parent is
\* still there
OnDeleteCascade(child, column, parent) ==
  LET T(row) == \E i \in DOMAIN parent : parent[i].id = row[column]
  IN SelectSeq(child, T)

\* useDeleteSection, useDatabase.ts 100-116
DeleteSection(id) ==
  /\ reply = NoReply
  /\ ById(sections, id) # <<>>
  /\ sections' = Without(sections, id)
  /\ questions' = OnDeleteCascade(questions, "section_id", sections')
  /\ question_responses' = OnDeleteCascade(question_responses, "question_id", questions')
  /\ UNCHANGED <<candidates, test_attempts, clock, reqVars, histVars, verifyVars, page>>

\* useDeleteQuestion, useDatabase.ts 155-170
DeleteQuestion(id) ==
  /\ reply = NoReply
  /\ ById(questions, id) # <<>>
  /\ questions' = Without(questions, id)
  /\ question_responses' = OnDeleteCascade(question_responses, "question_id", questions')
  /\ UNCHANGED <<sections, candidates, test_attempts, clock, reqVars, histVars, verifyVars, page>>

\* useDeleteCandidate, useDatabase.ts 250-265
DeleteCandidate(id) ==
  /\ reply = NoReply
  /\ ById(candidates, id) # <<>>
  /\ candidates' = Without(candidates, id)
  /\ test_attempts' = OnDeleteCascade(test_attempts, "candidate_id", candidates')
  /\ question_responses' = OnDeleteCascade(question_responses, "attempt_id", test_attempts')
  /\ UNCHANGED <<sections, questions, clock, reqVars, histVars, verifyVars, page>>

\* lines 130-136: the candidate is gone, the insert returns attemptError
CreateAttemptInsertRefused(r) ==
  /\ At(r, "ca_insert")
  /\ ~CandidateExists(body[r].candidateId)
  /\ CreateAttemptInsertFails(r)

\* lines 238-244: the attempt or the question is gone, the insert returns
\* responseError
SaveResponseInsertRefused(r) ==
  /\ At(r, "sr_insert")
  /\ ~ParentsExist(body[r])
  /\ Respond(r, body[r], 500, Err("Failed to save response"))
  /\ UNCHANGED <<dbVars, clock, histVars>>

MaxAdmin == 2           \* requests issued while the admin deletes, in all

\* the seeded rows, as in Init
InitAdmin ==
  /\ sections = << [id |-> 1, name |-> "Mathematics", display_order |-> 1],
                   [id |-> 2, name |-> "Science", display_order |-> 2] >>
  /\ questions = << [id |-> 1, section_id |-> 1, correct_answer |-> "B", time_limit |-> 30],
                    [id |-> 2, section_id |-> 2, correct_answer |-> "A", time_limit |-> 20] >>
  /\ candidates = << [id |-> 1, test_status |-> "NOT_ATTEMPTED"] >>
  /\ test_attempts = <<>>
  /\ question_responses = <<>>
  /\ clock = 1
  /\ pc = [r \in Reqs |-> "idle"]
  /\ body = [r \in Reqs |-> NoBody]
  /\ loc = [r \in Reqs |-> NoLoc]
  /\ reply = NoReply
  /\ left = MaxAdmin
  /\ createOk = {}
  /\ completeOk = {}
  /\ ColdStart
  /\ page = NoPage

NextAdmin ==
  \/ Deliver
  \/ \E r \in Reqs : CreateAttempt(r)
  \/ \E r \in Reqs : SaveResponse(r)
  \/ \E r \in Reqs : CreateAttemptInsertRefused(r)
  \/ \E r \in Reqs : SaveResponseInsertRefused(r)
  \/ \E id \in {1, 2} : DeleteSection(id)
  \/ \E id \in {1, 2} : DeleteQuestion(id)
  \/ \E id \in {1, 2} : DeleteCandidate(id)

SpecAdmin == InitAdmin /\ [][NextAdmin]_vars

(***************************************************************************)
(* The question bank under administration: the admin adds sections (with   *)
(* display_order = number of sections listed + 1) and questions and        *)
(* deletes them, while the question list is loaded and results are read    *)
(* for a completed attempt.                                                *)
(***************************************************************************)
MaxSections == 2        \* rows of sections
MaxQuestions == 2       \* rows of questions
MaxReads == 1           \* question lists and results read, in all

\* handleAddSection, AdminDashboard.tsx 124-132, and useAddSection,
\* useDatabase.ts 78-98
AddSection(name) ==
  /\ reply = NoReply
  /\ Len(sections) < MaxSections
  /\ sections' = Append(sections, [id |-> NextId(sections), name |-> name,
                                   display_order |-> Len(sections) + 1])
  /\ UNCHANGED <<questions, candidates, test_attempts, question_responses,
                 clock, reqVars, histVars, verifyVars, page>>

\* handleAddQuestion, AdminDashboard.tsx 155-171, and useAddQuestion,
\* useDatabase.ts 133-153: selectedSection is one of the sections listed
AddQuestion(sectionId, correctAnswer) ==
  /\ reply = NoReply
  /\ Len(questions) < MaxQuestions
  /\ ById(sections, sectionId) # <<>>
  /\ questions' = Append(questions, [id |-> NextId(questions), section_id |-> sectionId,
                                     correct_answer |-> correctAnswer, time_limit |-> 30])
  /\ UNCHANGED <<sections, candidates, test_attempts, question_responses,
                 clock, reqVars, histVars, verifyVars, page>>

InitOrder ==
  /\ sections = << [id |-> 1, name |-> "Mathematics", display_order |-> 1],
                   [id |-> 2, name |-> "Science", display_order |-> 2] >>
  /\ questions = << [id |-> 1, section_id |-> 1, correct_answer |-> "B", time_limit |-> 30],
                    [id |-> 2, section_id |-> 2, correct_answer |-> "A", time_limit |-> 20] >>
  /\ candidates = << [id |-> 1, test_status |-> "ATTEMPTED"] >>
  /\ test_attempts = << [id |-> 1, candidate_id |-> 1, completed_at |-> 1,
                         total_questions |-> 2, correct_answers |-> 1,
                         incorrect_answers |-> 0, total_score |-> 50] >>
  /\ question_responses = << [id |-> 1, attempt_id |-> 1, question_id |-> 2,
                              selected_answer |-> "A", is_correct |-> TRUE,
                              time_taken |-> 7] >>
  /\ clock = 1
  /\ pc = [r \in Reqs |-> "idle"]
  /\ body = [r \in Reqs |-> NoBody]
  /\ loc = [r \in Reqs |-> NoLoc]
  /\ reply = NoReply
  /\ left = MaxReads
  /\ createOk = {1}
  /\ completeOk = {1}
  /\ ColdStart
  /\ page = NoPage

NextOrder ==
  \/ Deliver
  \/ \E name \in {"English"} : AddSection(name)
  \/ \E id \in 1 .. MaxSections, key \in {"C"} : AddQuestion(id, key)
  \/ \E id \in 1 .. MaxSections : DeleteSection(id)
  \/ \E id \in 1 .. MaxQuestions : DeleteQuestion(id)
  \/ \E caller \in Callers : ListTestQuestions(caller)
  \/ \E r \in Reqs : GetResults(r)

SpecOrder == InitOrder /\ [][NextOrder]_vars

(***************************************************************************)
(* The Test page (src/pages/Test.tsx, first listing) with its TestTimer.   *)
(* page holds the React state of the mounted component, the callbacks      *)
(* setTimeout has pending and the mutations in flight.  A callback runs    *)
(* with the state of the render that created it: Closure is what a render  *)
(* captures.  The server is the environment here: a mutation in flight     *)
(* resolves or rejects at any later step.  sent, saved and clicks record   *)
(* what the page has done.  (timeTaken is not modelled.)                   *)
(***************************************************************************)
MaxClicks == 1          \* clicks on an option, in all
MaxTimeLimit == 2       \* time_limit of the first question, in seconds

UNDEFINED == "undefined"

\* the consts of one render that moveToNextQuestion closes over (lines 49-88)
Closure(p) ==
  [isTransitioning |-> p.isTransitioning,
   currentIndex |-> p.currentIndex,
   selectedAnswer |-> p.selectedAnswer]

\* the sequence without its k-th element
RemoveAt(seq, k) == SubSeq(seq, 1, k - 1) \o SubSeq(seq, k + 1, Len(seq))

\* the first pending callback of a kind: timers of equal delay fire in the
\* order they were set
FirstOf(timeouts, kind) ==
  CHOOSE k \in DOMAIN timeouts :
    /\ timeouts[k].kind = kind
    /\ \A j \in 1 .. k - 1 : timeouts[j].kind # kind

\* lines 49-61: moveToNextQuestion as created by the render c, up to its
\* await: nothing if that render was in transition or had no current
\* question, else save_response for that render's question with that
\* render's selectedAnswer || null.  via and clicked record who called.
moveToNextQuestion(p, c, via, clicked) ==
  IF c.isTransitioning \/ c.currentIndex >= Len(p.questions) THEN p
  ELSE [p EXCEPT
          !.sent = Append(@, [action |-> "save_response",
                              questionId |-> p.questions[c.currentIndex + 1].id,
                              selectedAnswer |-> IF c.selectedAnswer = UNDEFINED
                                                   THEN NULL ELSE c.selectedAnswer,
                              via |-> via, clicked |-> clicked]),
          !.pending = Append(@, [kind |-> "save", closure |-> c])]

\* lines 90-95: finishTest up to its first await
finishTest(p) ==
  [p EXCEPT !.sent = Append(@, [action |-> "complete_attempt"]),
            !.pending = Append(@, [kind |-> "complete"])]

\* lines 120-127: a click on an option (QuestionCard.tsx 77)
handleSelectAnswer(answer) ==
  /\ page.mounted
  /\ page.currentIndex < Len(page.questions)
  /\ page.clicks < MaxClicks
  /\ page' = IF page.isTransitioning
               THEN [page EXCEPT !.clicks = @ + 1]
               ELSE [page EXCEPT !.clicks = @ + 1,
                                 !.selectedAnswer = answer,
                                 !.timeouts = Append(@, [kind |-> "select",
                                                         closure |-> Closure(page),
                                                         clicked |-> answer])]
  /\ UNCHANGED <<dbVars, clock, reqVars, histVars, verifyVars>>

\* lines 124-126: the 500 ms callback runs the moveToNextQuestion of the
\* render the click happened in
AutoAdvance ==
  /\ \E k \in DOMAIN page.timeouts : page.timeouts[k].kind = "select"
  /\ LET k == FirstOf(page.timeouts, "select") IN
       page' = moveToNextQuestion([page EXCEPT !.timeouts = RemoveAt(@, k)],
                                  page.timeouts[k].closure, "click",
                                  page.timeouts[k].clicked)
  /\ UNCHANGED <<dbVars, clock, reqVars, histVars, verifyVars>>

\* a timer whose interval keeps running while it is paused
TickIgnoringPause ==
  /\ page.mounted
  /\ page.currentIndex < Len(page.questions)
  /\ page.timeLeft > 0
  /\ page' = IF page.timeLeft <= 1
               THEN moveToNextQuestion([page EXCEPT !.timeLeft = 0],
                                       Closure(page), "timer", "none")
               ELSE [page EXCEPT !.timeLeft = @ - 1]
  /\ UNCHANGED <<dbVars, clock, reqVars, histVars, verifyVars>>

\* TestTimer.tsx 18-33: the interval runs while the timer is shown, not
\* paused and above zero; at prev <= 1 it calls onTimeUp, which is
\* handleTimeUp (Test.tsx 129-131) of the last render
Tick ==
  /\ page.mounted
  /\ page.currentIndex < Len(page.questions)
  /\ ~page.isTransitioning
  /\ page.timeLeft > 0
  /\ page' = IF page.timeLeft <= 1
               THEN moveToNextQuestion([page EXCEPT !.timeLeft = 0],
                                       Closure(page), "timer", "none")
               ELSE [page EXCEPT !.timeLeft = @ - 1]
  /\ UNCHANGED <<dbVars, clock, reqVars, histVars, verifyVars>>

\* lines 63-84: save_response returned: go on to the next question of the
\* render that sent it, or finish after its last one (state setters of an
\* unmounted component do nothing)
SaveResponseResolved(k) ==
  /\ k \in DOMAIN page.pending
  /\ page.pending[k].kind = "save"
  /\ LET c == page.pending[k].closure
         p == [page EXCEPT !.pending = RemoveAt(@, k),
                           !.saved = @ \cup {page.questions[c.currentIndex + 1].id}]
     IN page' = IF c.currentIndex < Len(page.questions) - 1
                  THEN [p EXCEPT !.isTransitioning = IF p.mounted THEN TRUE ELSE @,
                                 !.timeouts = Append(@, [kind |-> "next"])]
                  ELSE finishTest(p)
  /\ UNCHANGED <<dbVars, clock, reqVars, histVars, verifyVars>>

\* lines 85-87: save_response failed, the error is logged
SaveResponseRejected(k) ==
  /\ k \in DOMAIN page.pending
  /\ page.pending[k].kind = "save"
  /\ page' = [page EXCEPT !.pending = RemoveAt(@, k)]
  /\ UNCHANGED <<dbVars, clock, reqVars, histVars, verifyVars>>

\* lines 76-81: the 300 ms callback shows the next question; the TestTimer
\* is keyed by the question id, so it starts again from the new time_limit
NextQuestion ==
  /\ \E k \in DOMAIN page.timeouts : page.timeouts[k].kind = "next"
  /\ LET p == [page EXCEPT !.timeouts = RemoveAt(@, FirstOf(page.timeouts, "next"))]
         index == page.currentIndex + 1
     IN page' = IF ~page.mounted THEN p
                ELSE [p EXCEPT !.currentIndex = index,
                               !.selectedAnswer = UNDEFINED,
                               !.isTransitioning = FALSE,
                               !.timeLeft = IF index < Len(page.questions)
                                              THEN page.questions[index + 1].time_limit
                                              ELSE 0]
  /\ UNCHANGED <<dbVars, clock, reqVars, histVars, verifyVars>>

\* lines 96-100: complete_attempt returned, get_results is sent
CompleteAttemptResolved(k) ==
  /\ k \in DOMAIN page.pending
  /\ page.pending[k].kind = "complete"
  /\ page' = [page EXCEPT !.pending = Append(RemoveAt(@, k), [kind |-> "results"]),
                          !.sent = Append(@, [action |-> "get_results"])]
  /\ UNCHANGED <<dbVars, clock, reqVars, histVars, verifyVars>>

\* lines 102-114: get_results returned, navigate('/result') unmounts the page
GetResultsResolved(k) ==
  /\ k \in DOMAIN page.pending
  /\ page.pending[k].kind = "results"
  /\ page' = [page EXCEPT !.pending = RemoveAt(@, k), !.mounted = FALSE]
  /\ UNCHANGED <<dbVars, clock, reqVars, histVars, verifyVars>>

\* lines 115-117: complete_attempt or get_results failed, the error is logged
FinishTestRejected(k) ==
  /\ k \in DOMAIN page.pending
  /\ page.pending[k].kind \in {"complete", "results"}
  /\ page' = [page EXCEPT !.pending = RemoveAt(@, k)]
  /\ UNCHANGED <<dbVars, clock, reqVars, histVars, verifyVars>>

\* the page as it is first shown: the question list is loaded, attempt 1 is
\* open, the first question's timer is at its time_limit
InitPage ==
  /\ sections = << [id |-> 1, name |-> "Mathematics", display_order |-> 1],
                   [id |-> 2, name |-> "Science", display_order |-> 2] >>
  /\ questions = << [id |-> 1, section_id |-> 1, correct_answer |-> "B",
                     time_limit |-> MaxTimeLimit],
                    [id |-> 2, section_id |-> 2, correct_answer |-> "A", time_limit |-> 1] >>
  /\ candidates = << [id |-> 1, test_status |-> "ATTEMPTED"] >>
  /\ test_attempts = << [id |-> 1, candidate_id |-> 1, completed_at |-> NoTime,
                         total_questions |-> 2, correct_answers |-> 0,
                         incorrect_answers |-> 0, total_score |-> 0] >>
  /\ question_responses = <<>>
  /\ clock = 1
  /\ pc = [r \in Reqs |-> "idle"]
  /\ body = [r \in Reqs |-> NoBody]
  /\ loc = [r \in Reqs |-> NoLoc]
  /\ reply = NoReply
  /\ left = 0
  /\ createOk = {1}
  /\ completeOk = {}
  /\ ColdStart
  /\ page = [mounted |-> TRUE,
             questions |-> [i \in DOMAIN questions |->
                              [id |-> questions[i].id,
                               time_limit |-> questions[i].time_limit]],
             currentIndex |-> 0,
             selectedAnswer |-> UNDEFINED,
             isTransitioning |-> FALSE,
             timeLeft |-> questions[1].time_limit,
             timeouts |-> <<>>,
             pending |-> <<>>,
             sent |-> <<>>,
             saved |-> {},
             clicks |-> 0]

NextPage ==
  \/ \E answer \in {"A", "B"} : handleSelectAnswer(answer)
  \/ AutoAdvance
  \/ Tick
  \/ \E k \in 1 .. MaxClicks + 2 : SaveResponseResolved(k)
  \/ \E k \in 1 .. MaxClicks + 2 : SaveResponseRejected(k)
  \/ NextQuestion
  \/ \E k \in 1 .. MaxClicks + 2 : CompleteAttemptResolved(k)
  \/ \E k \in 1 .. MaxClicks + 2 : GetResultsResolved(k)
  \/ \E k \in 1 .. MaxClicks + 2 : FinishTestRejected(k)

SpecPage == InitPage /\ [][NextPage]_vars

(***************************************************************************)
(* Repeated submissions: a bank of one question, attempt 1 created for it  *)
(* and open; the page (or any client) sends save_response more than once.  *)
(***************************************************************************)
InitRepeat ==
  /\ sections = << [id |-> 1, name |-> "Mathematics", display_order |-> 1] >>
  /\ questions = << [id |-> 1, section_id |-> 1, correct_answer |-> "A", time_limit |-> 30] >>
  /\ candidates = << [id |-> 1, test_status |-> "ATTEMPTED"] >>
  /\ test_attempts = << [id |-> 1, candidate_id |-> 1, completed_at |-> NoTime,
                         total_questions |-> 1, correct_answers |-> 0,
                         incorrect_answers |-> 0, total_score |-> 0] >>
  /\ question_responses = <<>>
  /\ clock = 1
  /\ pc = [r \in Reqs |-> "idle"]
  /\ body = [r \in Reqs |-> NoBody]
  /\ loc = [r \in Reqs |-> NoLoc]
  /\ reply = NoReply
  /\ left = MaxIssued
  /\ createOk = {1}
  /\ completeOk = {}
  /\ ColdStart
  /\ page = NoPage

NextRepeat ==
  \/ Deliver
  \/ \E r \in Reqs : SaveResponse(r)
  \/ \E r \in Reqs : CompleteAttempt(r)

SpecRepeat == InitRepeat /\ [][NextRepeat]_vars

(***************************************************************************)
(* Properties                                                              *)
(***************************************************************************)

\* C1: concurrent create_attempt requests for one NOT_ATTEMPTED candidate
\* leave at most one attempt row for the candidate in every reachable state,
\* and a request that reports success leaves the candidate ATTEMPTED with
\* the returned attempt as its only attempt row.
C1_AtMostOneAttemptPerCandidate ==
  /\ \A i \in DOMAIN candidates :
       LET T(a) == a.candidate_id = candidates[i].id
       IN Len(SelectSeq(test_attempts, T)) <= 1
  /\ (reply # NoReply /\ reply.req.action = "create_attempt" /\ reply.status = 200) =>
       LET T(a) == a.candidate_id = reply.req.candidateId
           rows == SelectSeq(test_attempts, T)
       IN /\ {rows[i].id : i \in DOMAIN rows} = {reply.data.id}
          /\ \A i \in DOMAIN candidates :
               candidates[i].id = reply.req.candidateId => AlreadyAttempted(candidates[i])

\* C2: a create_attempt issued after a create_attempt for the same candidate
\* returned success never gets past the status check: it is answered with
\* the already-attempted error and inserts no row; a create_attempt naming
\* no candidate row is answered Not Found and inserts no row.
C2_LaterCreateAttemptRejected ==
  /\ [](\A r \in Reqs : pc[r] \in {"ca_insert", "ca_update"} => ~loc[r].after)
  /\ [][(/\ reply = NoReply
         /\ reply' # NoReply
         /\ pc' = pc
         /\ reply'.req.action = "create_attempt"
         /\ uuidRegex(reply'.req.candidateId)
         /\ reply'.req.totalQuestions >= 0)
        => /\ test_attempts' = test_attempts
           /\ reply'.req.candidateId \in createOk =>
                /\ reply'.status = 400
                /\ reply'.data = Err("Candidate has already attempted the test")
           /\ ById(candidates, reply'.req.candidateId) = <<>> =>
                /\ reply'.status = 404
                /\ reply'.data = Err("Candidate not found")]_vars

\* C3: create_attempt is all-or-nothing: a request that reports success has
\* inserted its attempt row and left the candidate ATTEMPTED; a request that
\* reports failure has inserted no row and left the candidate unchanged.
C3_CreateAttemptAllOrNothing ==
  [][(reply = NoReply /\ reply' # NoReply /\ reply'.req.action = "create_attempt")
     => IF reply'.status = 200
          THEN /\ \E i \in DOMAIN test_attempts' :
                    /\ test_attempts'[i].id = reply'.data.id
                    /\ test_attempts'[i].candidate_id = reply'.req.candidateId
               /\ \A i \in DOMAIN candidates' :
                    candidates'[i].id = reply'.req.candidateId
                      => AlreadyAttempted(candidates'[i])
          ELSE /\ test_attempts' = test_attempts
               /\ candidates' = candidates
               /\ \A r \in Reqs : ~(pc[r] = "ca_update" /\ pc'[r] = "idle")]_vars

\* C4: every stored response's is_correct says whether its selected_answer
\* is non-null and equals the correct_answer of its question, whatever
\* isCorrect the request body carried.
C4_IsCorrectComputedByServer ==
  \A i \in DOMAIN question_responses :
    LET response == question_responses[i]
        rows == ById(questions, response.question_id)
    IN /\ SingleOk(rows)
       /\ response.is_correct = (/\ response.selected_answer # NULL
                                 /\ response.selected_answer = rows[1].correct_answer)

\* a save_response whose body claimed the opposite of what was stored
C4_ClientFlagOverruled ==
  /\ reply # NoReply
  /\ reply.req.action = "save_response"
  /\ reply.status = 200
  /\ reply.req.isCorrect # reply.data.is_correct
  /\ \E i \in DOMAIN question_responses :
       /\ question_responses[i].id = reply.data.id
       /\ question_responses[i].is_correct = reply.data.is_correct

\* C5: no payload carries a question's correct_answer before the attempt is
\* completed: the save_response reply and the list_test_questions payload
\* have no correct_answer field; only get_results of a completed attempt has.
C5_NoCorrectAnswerBeforeResults ==
  reply # NoReply =>
    /\ reply.req.action = "save_response" =>
         "correct_answer" \notin DOMAIN reply.data
    /\ reply.req.action = "list_test_questions" =>
         \A i \in DOMAIN reply.data : "correct_answer" \notin DOMAIN reply.data[i]
    /\ (reply.req.action = "get_results" /\ reply.status = 200) =>
         \A i \in DOMAIN test_attempts :
           test_attempts[i].id = reply.req.attemptId => CompletedAtSet(test_attempts[i])

\* C6: the correct_answers and incorrect_answers complete_attempt writes are
\* the numbers of the attempt's stored responses with is_correct true and
\* false (so they do not depend on the counts the request body carries).
C6_CountsEqualStoredResponses ==
  [][\A r \in Reqs :
       (pc[r] = "co_update" /\ pc'[r] = "co_status") =>
         LET rows == ById(test_attempts', body[r].attemptId)
             responses == ResponsesOf(question_responses', body[r].attemptId)
         IN \A i \in DOMAIN rows :
              /\ rows[i].correct_answers = CorrectCount(responses)
              /\ rows[i].incorrect_answers = IncorrectCount(responses)]_vars

\* C7: once an attempt's completed_at is set, no step adds a response to it.
C7_NoResponseAfterCompletion ==
  [][\A i \in DOMAIN test_attempts :
       CompletedAtSet(test_attempts[i]) =>
         ResponsesOf(question_responses', test_attempts[i].id)
           = ResponsesOf(question_responses, test_attempts[i].id)]_vars

\* C8: an attempt is completed once: no complete_attempt writes to an attempt
\* whose completed_at is set, and completed_at, correct_answers,
\* incorrect_answers and total_score of a completed attempt never change.
C8_CompletedExactlyOnce ==
  [][\A i \in DOMAIN test_attempts :
       CompletedAtSet(test_attempts[i]) =>
         /\ \A r \in Reqs :
              (pc[r] = "co_update" /\ pc'[r] = "co_status")
                => body[r].attemptId # test_attempts[i].id
         /\ i \in DOMAIN test_attempts'
         /\ test_attempts'[i].completed_at = test_attempts[i].completed_at
         /\ test_attempts'[i].correct_answers = test_attempts[i].correct_answers
         /\ test_attempts'[i].incorrect_answers = test_attempts[i].incorrect_answers
         /\ test_attempts'[i].total_score = test_attempts[i].total_score]_vars

\* C9: a complete_attempt issued after a complete_attempt for the same
\* attempt returned success never gets past the completed_at check: it is
\* answered with the already-completed error and leaves the attempt rows and
\* the candidate rows as they were.
C9_LaterCompleteAttemptRejected ==
  /\ [](\A r \in Reqs :
          pc[r] \in {"co_responses", "co_update", "co_status"} => ~loc[r].after)
  /\ [][(/\ reply = NoReply
         /\ reply' # NoReply
         /\ pc' = pc
         /\ reply'.req.action = "complete_attempt"
         /\ reply'.req.attemptId \in completeOk)
        => /\ reply'.status = 400
           /\ reply'.data = Err("Test attempt already completed")
           /\ test_attempts' = test_attempts
           /\ candidates' = candidates]_vars

\* a complete_attempt was answered with the rejection after an earlier one
\* for the same attempt had returned success
C9_SecondCompleteAnswered ==
  /\ reply # NoReply
  /\ reply.req.action = "complete_attempt"
  /\ reply.req.attemptId \in completeOk
  /\ reply.status = 400
  /\ \E i \in DOMAIN test_attempts :
       /\ test_attempts[i].id = reply.req.attemptId
       /\ CompletedAtSet(test_attempts[i])

\* C10: a completed attempt with total_questions = T > 0 and C correct
\* responses has total_score = 100*C/T rounded half-up, which is
\* floor((200*C + T) / (2*T)).
C10_ScoreRoundedHalfUp ==
  \A i \in DOMAIN test_attempts :
    (CompletedAtSet(test_attempts[i]) /\ test_attempts[i].total_questions > 0) =>
      test_attempts[i].total_score
        = (200 * test_attempts[i].correct_answers + test_attempts[i].total_questions)
            \div (2 * test_attempts[i].total_questions)

\* C11: a completed attempt that was created with total_questions = 0 has
\* total_score = 0, whatever responses were recorded for it.
C11_ZeroQuestionsScoreZero ==
  \A i \in DOMAIN test_attempts :
    (test_attempts[i].completed_at # NoTime /\ test_attempts[i].total_questions = 0)
      => test_attempts[i].total_score = 0

\* C12: get_results for an attempt whose completed_at is not set is answered
\* with the not-yet-completed error and carries no results; a get_results
\* handler goes on, and results are returned, only for an attempt whose
\* completed_at a complete_attempt has set.
C12_ResultsOnlyAfterCompletion ==
  /\ [](\A r \in Reqs :
          pc[r] \in {"gr_responses", "gr_questions", "gr_sections"}
            => loc[r].attempt.completed_at # NoTime)
  /\ []((reply # NoReply /\ reply.req.action = "get_results"
           /\ (reply.status = 200 \/ "detailedQuestions" \in DOMAIN reply.data))
          => \E i \in DOMAIN test_attempts :
               /\ test_attempts[i].id = reply.req.attemptId
               /\ test_attempts[i].completed_at # NoTime)
  /\ [][(/\ reply = NoReply
         /\ reply' # NoReply
         /\ pc' = pc
         /\ reply'.req.action = "get_results"
         /\ \E i \in DOMAIN test_attempts :
              /\ test_attempts[i].id = reply'.req.attemptId
              /\ test_attempts[i].completed_at = NoTime)
        => /\ reply'.status = 400
           /\ reply'.data = Err("Test is not yet completed")]_vars

\* get_results was refused for an attempt that exists and is not completed
C12_ResultsRefused ==
  /\ reply # NoReply
  /\ reply.req.action = "get_results"
  /\ reply.status = 400
  /\ reply.data = Err("Test is not yet completed")
  /\ \E i \in DOMAIN test_attempts :
       /\ test_attempts[i].id = reply.req.attemptId
       /\ test_attempts[i].completed_at = NoTime

\* C13: the detailedQuestions of a get_results reply has exactly one record
\* per stored response of the attempt, each with that response's
\* selected_answer, is_correct and time_taken and with the correct_answer
\* and section name of the response's question.
C13_OneRecordPerStoredResponse ==
  (reply # NoReply /\ reply.req.action = "get_results" /\ reply.status = 200) =>
    LET stored == ResponsesOf(question_responses, reply.req.attemptId)
        detailedQuestions == reply.data.detailedQuestions
    IN /\ Len(detailedQuestions) = Len(stored)
       /\ \A i \in DOMAIN detailedQuestions :
            LET question == ById(questions, stored[i].question_id)[1]
                section == ById(sections, question.section_id)[1]
            IN /\ detailedQuestions[i].id = stored[i].question_id
               /\ detailedQuestions[i].selected_answer = stored[i].selected_answer
               /\ detailedQuestions[i].is_correct = stored[i].is_correct
               /\ detailedQuestions[i].time_taken = stored[i].time_taken
               /\ detailedQuestions[i].correct_answer = question.correct_answer
               /\ detailedQuestions[i].section_name = section.name

\* C14: the sectionScores of a get_results reply lists every section in
\* ascending display order, and its correct counts add up to the
\* correct_answers stored on the attempt.
C14_SectionScoresAddUp ==
  (reply # NoReply /\ reply.req.action = "get_results" /\ reply.status = 200) =>
    LET sectionScores == reply.data.sectionScores
        Order(name) == (CHOOSE i \in DOMAIN sections : sections[i].name = name)
        Sum[i \in 0 .. Len(sectionScores)] ==
          IF i = 0 THEN 0 ELSE Sum[i - 1] + sectionScores[i].correct
        attempt == ById(test_attempts, reply.req.attemptId)[1]
    IN /\ Len(sectionScores) = Len(sections)
       /\ \A i, j \in DOMAIN sectionScores :
            i < j => sections[Order(sectionScores[i].sectionName)].display_order
                       <= sections[Order(sectionScores[j].sectionName)].display_order
       /\ Sum[Len(sectionScores)] = attempt.correct_answers

\* C15: no step of a create_attempt, save_response, complete_attempt,
\* get_attempt, get_responses or get_results request takes a candidate from
\* ATTEMPTED back to NOT_ATTEMPTED.
C15_AttemptedIsIrreversible ==
  [][\A i \in DOMAIN candidates :
       candidates[i].test_status = "ATTEMPTED" =>
         /\ i \in DOMAIN candidates'
         /\ candidates'[i].id = candidates[i].id
         /\ candidates'[i].test_status = "ATTEMPTED"]_vars

\* complete_attempt has written the status of a candidate that was already
\* ATTEMPTED
C15_StatusWrittenAgain ==
  /\ completeOk # {}
  /\ \E i \in DOMAIN candidates :
       /\ candidates[i].id \in createOk
       /\ candidates[i].test_status = "ATTEMPTED"

\* C16: for every client identifier, any 60-second window holds at most 5
\* requests that checkRateLimit admitted; a request that is not admitted is
\* answered 429.
C16_AtMostFivePerRollingWindow ==
  /\ [](\A id \in Identifiers : \A i \in DOMAIN admitted[id] :
          Cardinality({ j \in DOMAIN admitted[id] :
                          /\ admitted[id][i] <= admitted[id][j]
                          /\ admitted[id][j] < admitted[id][i] + WindowMs })
            <= MaxRequests)
  /\ [][(reply = NoReply /\ reply' # NoReply /\ reply'.req.action = "verify_candidate")
          => /\ (reply'.status = 429) = (admitted' = admitted)
             /\ reply'.status = 429 => "found" \notin DOMAIN reply'.data]_vars

\* C17: with the largest budget the design allows (5 per window), a
\* create_attempt request of a client that has already sent 5 in the same
\* window is answered 429 at once.
C17_CreateAttemptBudget ==
  [][(left' = left - 1 /\ MaxFlood - left >= MaxRequests)
       => (reply' # NoReply /\ reply'.status = 429)]_vars

\* C18: a request that checkRateLimit rejects leaves the Map as it was, and
\* a request that arrives after the identifier's resetAt is admitted.
C18_RejectionLeavesWindowAlone ==
  [][(reply = NoReply /\ reply' # NoReply /\ reply'.req.action = "verify_candidate")
       => /\ reply'.status = 429 =>
               /\ rateLimits' = rateLimits
               /\ admitted' = admitted
          /\ (/\ rateLimits[reply'.req.identifier] # NoLimit
              /\ nowMs' > rateLimits[reply'.req.identifier].resetAt)
               => reply'.status # 429]_vars

\* a request was admitted into a new window after one of the same source
\* had been rejected
C18_AdmittedAfterRejections ==
  /\ reply # NoReply
  /\ reply.req.action = "verify_candidate"
  /\ reply.status # 429
  /\ rateLimits[reply.req.identifier].count = 1
  /\ Len(admitted[reply.req.identifier]) = MaxRequests + 1
  /\ \A id \in Identifiers : id # reply.req.identifier => admitted[id] = <<>>
  /\ MaxVerify - left > MaxRequests + 1

\* C19: every admitted, well-formed verify_candidate request that matches no
\* candidate (in name, in email or in phone) gets one and the same reply,
\* status and body.
C19_MismatchRepliesIdentical ==
  (/\ reply # NoReply
   /\ reply.req.action = "verify_candidate"
   /\ reply.status # 429
   /\ Validation(reply.req) = "ok"
   /\ \A i \in DOMAIN candidates :
        \/ toLowerCase(trim(reply.req.fullName)) # toLowerCase(candidates[i].full_name)
        \/ toLowerCase(trim(reply.req.email)) # toLowerCase(candidates[i].email)
        \/ trim(reply.req.phone) # candidates[i].phone)
  => /\ reply.status = 200
     /\ reply.data =
          [found |-> FALSE,
           message |-> "You are not authorized to take the NIOS Admission Test. Please contact the administration."]

\* a request with a candidate's name and email and an unknown phone was
\* answered not found
C19_OnlyPhoneWrong ==
  /\ reply # NoReply
  /\ reply.req.action = "verify_candidate"
  /\ reply.status = 200
  /\ ~reply.data.found
  /\ \E i \in DOMAIN candidates :
       /\ toLowerCase(trim(reply.req.fullName)) = toLowerCase(candidates[i].full_name)
       /\ toLowerCase(trim(reply.req.email)) = toLowerCase(candidates[i].email)
  /\ \A i \in DOMAIN candidates : trim(reply.req.phone) # candidates[i].phone

\* C20: an admitted verify_candidate request is answered found = true with
\* candidate c exactly when its trimmed name equals c.full_name ignoring
\* case, its trimmed email equals c.email ignoring case and its phone equals
\* c.phone (so an input with %, _ or backslash is never found with a
\* candidate whose stored fields differ from it).
C20_FoundExactlyOnMatch ==
  (reply # NoReply /\ reply.req.action = "verify_candidate" /\ reply.status # 429) =>
    \A i \in DOMAIN candidates :
      (reply.status = 200 /\ reply.data.found /\ reply.data.candidateId = candidates[i].id)
        = (/\ toLowerCase(trim(reply.req.fullName)) = toLowerCase(candidates[i].full_name)
           /\ toLowerCase(trim(reply.req.email)) = toLowerCase(candidates[i].email)
           /\ reply.req.phone = candidates[i].phone)

\* C21: a create_attempt, save_response, complete_attempt or get_results
\* request that ends in a validation, not-found or conflict error (400 or
\* 404) has written nothing: the step that answers leaves the candidates,
\* attempts and responses as they were, and the handler that answers has not
\* got past any of its writes.
C21_ErrorLeavesTablesAlone ==
  [][(/\ reply = NoReply
      /\ reply' # NoReply
      /\ reply'.req.action \in {"create_attempt", "save_response",
                                "complete_attempt", "get_results"}
      /\ reply'.status \in {400, 404})
     => /\ candidates' = candidates
        /\ test_attempts' = test_attempts
        /\ question_responses' = question_responses
        /\ \A r \in Reqs :
             (pc[r] # "idle" /\ pc'[r] = "idle") => pc[r] \notin {"ca_update", "co_status"}]_vars

\* a save_response for an open attempt was answered Question not found,
\* after its handler had suspended once, with rows in every table
C21_QuestionNotFoundAnswered ==
  /\ reply # NoReply
  /\ reply.req.action = "save_response"
  /\ reply.status = 404
  /\ reply.data = Err("Question not found")
  /\ test_attempts # <<>>
  /\ question_responses # <<>>

\* C22: at most one response per (attempt, question) pair is stored, whatever
\* save_response requests are issued.
C22_OneResponsePerPair ==
  \A i, j \in DOMAIN question_responses :
    (/\ question_responses[i].attempt_id = question_responses[j].attempt_id
     /\ question_responses[i].question_id = question_responses[j].question_id)
      => i = j

\* C23: a response saved with selected_answer null is stored with is_correct
\* false, and a completed attempt's correct_answers + incorrect_answers is
\* the number of responses stored for it (so the null response is among the
\* incorrect ones).
C23_TimeoutCountedIncorrect ==
  /\ \A i \in DOMAIN question_responses :
       question_responses[i].selected_answer = NULL => ~question_responses[i].is_correct
  /\ \A i \in DOMAIN test_attempts :
       CompletedAtSet(test_attempts[i]) =>
         /\ test_attempts[i].correct_answers + test_attempts[i].incorrect_answers
              = Len(ResponsesOf(question_responses, test_attempts[i].id))
         /\ test_attempts[i].incorrect_answers
              = IncorrectCount(ResponsesOf(question_responses, test_attempts[i].id))

\* C24: every response references an existing attempt and an existing
\* question, every attempt an existing candidate, every question an existing
\* section, in every state; so the step that deletes a parent row deletes
\* its dependents too.
C24_ReferentialIntegrity ==
  /\ \A i \in DOMAIN question_responses :
       /\ ById(test_attempts, question_responses[i].attempt_id) # <<>>
       /\ ById(questions, question_responses[i].question_id) # <<>>
  /\ \A i \in DOMAIN test_attempts :
       ById(candidates, test_attempts[i].candidate_id) # <<>>
  /\ \A i \in DOMAIN questions :
       ById(sections, questions[i].section_id) # <<>>

\* the candidate was deleted after create_attempt had returned an attempt
\* for them, and a save_response that had seen that attempt was refused
C24_CascadeReached ==
  /\ createOk = {1}
  /\ candidates = <<>>
  /\ test_attempts = <<>>
  /\ reply # NoReply
  /\ reply.req.action = "save_response"
  /\ reply.status = 500

\* the sections by display_order, sections with the same display_order in
\* the order they were created
CanonicalOrder ==
  CHOOSE p \in OrderedByDisplayOrder(sections) :
    \A i, j \in DOMAIN sections :
      (i < j /\ sections[p[i]].display_order = sections[p[j]].display_order)
        => p[i] < p[j]

\* C25: the question sequence is a function of the stored sections and
\* questions: the sections by display_order, ties in creation order, each
\* followed by its questions in creation order, every question of an
\* existing section once; get_results lists sectionScores in that section
\* order.
C25_CanonicalSequence ==
  reply # NoReply =>
    /\ (reply.req.action = "list_test_questions" /\ reply.req.caller = "admin") =>
         reply.data = AllQuestions(CanonicalOrder, questions)
    /\ (reply.req.action = "get_results" /\ reply.status = 200) =>
         /\ Len(reply.data.sectionScores) = Len(sections)
         /\ \A i \in DOMAIN sections :
              reply.data.sectionScores[i].sectionName = sections[CanonicalOrder[i]].name

\* the save_response requests the page has sent, in the order sent
SavesSent == LET T(req) == req.action = "save_response" IN SelectSeq(page.sent, T)

\* the number of requests for an action among the first n the page has sent
SentBefore(action, n) ==
  Cardinality({ i \in 1 .. n : page.sent[i].action = action })

\* C26: the page goes through the loaded questions once: the save_response
\* requests it has sent are for the first questions of the sequence, one
\* each and in order; complete_attempt is sent at most once, after a
\* save_response for every question was sent and the one for the last
\* question has succeeded; get_results is sent at most once, after it.
C26_SinglePassTraversal ==
  /\ Len(SavesSent) <= Len(page.questions)
  /\ \A i \in DOMAIN SavesSent : SavesSent[i].questionId = page.questions[i].id
  /\ SentBefore("complete_attempt", Len(page.sent)) <= 1
  /\ SentBefore("get_results", Len(page.sent)) <= 1
  /\ \A i \in DOMAIN page.sent :
       /\ page.sent[i].action = "complete_attempt" =>
            /\ SentBefore("save_response", i) = Len(page.questions)
            /\ page.questions[Len(page.questions)].id \in page.saved
       /\ page.sent[i].action = "get_results" =>
            SentBefore("complete_attempt", i) = 1

\* C27: when the countdown reaches zero with no option selected and no
\* transition in progress, the page sends one save_response with
\* selected_answer null for the current question; the timer calls onTimeUp
\* at most once per question; the countdown stands still while the page is
\* in transition and starts from the new question's time_limit on advance.
C27_TimeUpSubmitsNull ==
  /\ [](\A i, j \in DOMAIN page.sent :
          (/\ page.sent[i].action = "save_response" /\ page.sent[i].via = "timer"
           /\ page.sent[j].action = "save_response" /\ page.sent[j].via = "timer"
           /\ page.sent[i].questionId = page.sent[j].questionId) => i = j)
  /\ [][/\ (/\ page.timeLeft > 0 /\ page'.timeLeft = 0
            /\ page'.currentIndex = page.currentIndex
            /\ page.selectedAnswer = UNDEFINED /\ ~page.isTransitioning)
          => page'.sent = Append(page.sent,
                                 [action |-> "save_response",
                                  questionId |-> page.questions[page.currentIndex + 1].id,
                                  selectedAnswer |-> NULL,
                                  via |-> "timer", clicked |-> "none"])
        /\ (page.isTransitioning /\ page'.currentIndex = page.currentIndex)
          => page'.timeLeft = page.timeLeft
        /\ (page'.currentIndex # page.currentIndex
              /\ page'.currentIndex < Len(page.questions))
          => page'.timeLeft = page.questions[page'.currentIndex + 1].time_limit]_vars

\* with no click at all, the timer of the second question has expired and
\* its save_response with null was sent
C27_SecondQuestionTimedOut ==
  /\ page.clicks = 0
  /\ page.currentIndex = 1
  /\ page.timeLeft = 0
  /\ \E i \in DOMAIN page.sent :
       /\ page.sent[i].action = "save_response"
       /\ page.sent[i].via = "timer"
       /\ page.sent[i].questionId = page.questions[2].id
       /\ page.sent[i].selectedAnswer = NULL

\* C28: the save_response that the auto-advance of a click on option X sends
\* carries selected_answer = X.
C28_ClickedAnswerSubmitted ==
  \A i \in DOMAIN page.sent :
    (page.sent[i].action = "save_response" /\ page.sent[i].via = "click")
      => page.sent[i].selectedAnswer = page.sent[i].clicked

\* C29: every completed attempt has 0 <= total_score <= 100 and
\* correct_answers + incorrect_answers <= total_questions, repeated
\* submissions for one question included.
C29_ScoreAndCountsInRange ==
  \A i \in DOMAIN test_attempts :
    CompletedAtSet(test_attempts[i]) =>
      /\ 0 <= test_attempts[i].total_score
      /\ test_attempts[i].total_score <= 100
      /\ test_attempts[i].correct_answers + test_attempts[i].incorrect_answers
           <= test_attempts[i].total_questions

\* C30: a request within the rate budget that carries exactly the stored
\* full_name, email and phone of a candidate whose name has at least 2
\* characters, whose email contains @ and whose phone is 10 digits is
\* answered found = true with that candidate's id, also when the stored
\* name or email contains _ or %.
C30_RosterCandidateVerifiable ==
  (reply # NoReply /\ reply.req.action = "verify_candidate" /\ reply.status # 429) =>
    \A i \in DOMAIN candidates :
      (/\ Len(candidates[i].full_name) >= 2
       /\ includes(candidates[i].email, "@")
       /\ TenDigits(candidates[i].phone)
       /\ reply.req.fullName = candidates[i].full_name
       /\ reply.req.email = candidates[i].email
       /\ reply.req.phone = candidates[i].phone)
        => /\ reply.status = 200
           /\ reply.data.found
           /\ reply.data.candidateId = candidates[i].id

====
